---- MODULE Spec2Model ----
(***************************************************************************)
(* Cortensor node monitoring bot (src/bot.py): the persisted subscription  *)
(* store (data.json), the command handlers run by the dispatcher thread,   *)
(* the job queue with its repeating update/alert jobs, and the upstream    *)
(* fetchers with their retry loop.                                         *)
(***************************************************************************)
EXTENDS Integers, Sequences, FiniteSets, TLC

VARIABLES
    file,       \* data.json: [st: "absent" | "ok" | "partial", d: collection]
    disp,       \* the dispatcher thread: the handler it is inside save_data of
    reply,      \* the last reply a handler sent: [chat, msg]
    committed,  \* history: the collection of the last save_data that completed
    jobs,       \* job queue: the scheduled repeating jobs
    running,    \* job callbacks now executing in the scheduler's thread pool
    lastTick,   \* outcome of the last timer tick: "none" | "run" | "skip"
    stopped,    \* history: per chat, menu_stop ran and no start command since
    ft,         \* one call of fetch_balance / fetch_txs
    an,         \* one subscription's pass through the body of a report loop
    sl          \* one call of send_long

vars == <<file, disp, reply, committed, jobs, running, lastTick, stopped, ft, an, sl>>

storeVars == <<file, disp, reply, committed>>
schedVars == <<jobs, running, lastTick, stopped>>

-----------------------------------------------------------------------------
(* Configuration *)

DEFAULT_UPDATE_INTERVAL == 300
MAX_ADDRESS_PER_CHAT == 5
MIN_AUTO_UPDATE_INTERVAL == 60
ALERT_INTERVAL == 900
MAX_ATTEMPTS == 3
BACKOFF_BASE == 3

(* Bounds *)

\* wallet addresses the user of chat 1 may send in the store specification
StoreAddrs == 6
\* job callbacks that may be executing at once
MaxRunning == 2
\* repeating jobs that may be scheduled at once
MaxJobs == 5

Chats == {1, 2}

-----------------------------------------------------------------------------
(* Values *)

\* a Python float: the value of float(text)
Num(x) == [nan |-> FALSE, v |-> x]
NaN == [nan |-> TRUE, v |-> 0]
\* IEEE comparison: every comparison with NaN is false
FloatLt(a, b) == ~a.nan /\ ~b.nan /\ a.v < b.v
FloatGe(a, b) == ~a.nan /\ ~b.nan /\ a.v >= b.v

\* the text of an interval message: a decimal number, "nan", or not a number
NumText(n) == [k |-> "num", n |-> n]
NanText == [k |-> "nan", n |-> 0]
JunkText == [k |-> "junk", n |-> 0]
\* float(text): [err |-> ValueError raised, val |-> the float]
ParseFloat(t) ==
    CASE t.k = "num" -> [err |-> FALSE, val |-> Num(t.n)]
      [] t.k = "nan" -> [err |-> FALSE, val |-> NaN]
      [] OTHER -> [err |-> TRUE, val |-> NaN]

\* a wallet string: id names the 42-character hex string up to letter case
\* (0: a string that is not "0x" followed by 40 characters), upper says it is
\* written with upper-case letters
Wallet(i, up) == [id |-> i, upper |-> up]
Lower_mut_id(w) == w
\* str.lower()
Lower(w) == [id |-> w.id, upper |-> FALSE]
WellFormed(w) == w.id # 0

\* s[lo:hi]
Slice(s, lo, hi) ==
    LET top == IF hi < Len(s) THEN hi ELSE Len(s)
    IN  IF lo >= top THEN <<>> ELSE SubSeq(s, lo + 1, top)

Item(w, l) == [address |-> w, label |-> l]

EmptyD == [c \in {} |-> 0]
DefaultInfo == [addresses |-> <<>>, auto_update_interval |-> Num(DEFAULT_UPDATE_INTERVAL)]

-----------------------------------------------------------------------------
(* Data storage *)

\* load_data: {} when the file is absent, unreadable (readOk false) or not JSON
load_data(readOk) ==
    IF file.st = "ok" /\ readOk THEN file.d ELSE EmptyD

get_chat_in(d, c) == IF c \in DOMAIN d THEN d[c] ELSE DefaultInfo

get_chat(c, readOk) == get_chat_in(load_data(readOk), c)

get_addresses(c, readOk) == get_chat(c, readOk).addresses

get_interval(c, readOk) == get_chat(c, readOk).auto_update_interval

set_chat_mut_partial(c, info, readOk) == [k \in {c} |-> info]

\* set_chat up to the call of save_data: the collection handed to save_data
set_chat(c, info, readOk) ==
    LET d == load_data(readOk)
    IN  [k \in DOMAIN d \cup {c} |-> IF k = c THEN info ELSE d[k]]

set_addresses(c, addrs, r2, r3) ==
    set_chat(c, [get_chat(c, r2) EXCEPT !.addresses = addrs], r3)

set_interval(c, iv, r2, r3) ==
    set_chat(c, [get_chat(c, r2) EXCEPT !.auto_update_interval = iv], r3)

-----------------------------------------------------------------------------
(* The dispatcher thread and the handlers that write the store *)

Idle == [pc |-> "idle", chat |-> 0, d |-> EmptyD, msg |-> ""]

\* the dispatcher thread takes the next update only when the handler of the
\* previous one has returned
DispatcherFree == disp.pc = "idle"

Said(c, msg) == [chat |-> c, msg |-> msg]

\* a handler returns after replying msg, without calling save_data
Reply(c, msg) ==
    /\ reply' = Said(c, msg)
    /\ UNCHANGED <<file, disp, committed>>

\* a handler reaches save_data(d) and will reply msg after it
Save(c, d, msg) ==
    /\ disp' = [pc |-> "open", chat |-> c, d |-> d, msg |-> msg]
    /\ UNCHANGED <<file, reply, committed>>

\* set_delay_recv: the test that rejects the value
set_delay_check(v) == FloatLt(v, Num(MIN_AUTO_UPDATE_INTERVAL))

set_delay_recv(c, t, r2, r3) ==
    /\ DispatcherFree
    /\ LET p == ParseFloat(t)
       IN  IF p.err \/ set_delay_check(p.val)
           THEN Reply(c, "Invalid; enter number >=60 or /cancel")
           ELSE Save(c, set_interval(c, p.val, r2, r3), "Interval set")
    /\ UNCHANGED <<schedVars, ft, an, sl>>

add_capacity_mut_off(arr) == FALSE
add_capacity_mut_gt(arr) == Len(arr) > MAX_ADDRESS_PER_CHAT

\* add_addr_recv: the capacity test
add_capacity(arr) == Len(arr) >= MAX_ADDRESS_PER_CHAT

\* the list is extended and saved before the capacity is tested
add_addr_recv_mut_append_first(c, w0, lbl, r1, r2, r3) ==
    /\ DispatcherFree
    /\ LET w == Lower(w0)
           arr == get_addresses(c, r1)
           new == set_addresses(c, Append(arr, Item(w, lbl)), r2, r3)
       IN  IF ~WellFormed(w)
           THEN Reply(c, "Bad address. Try again or /cancel")
           ELSE IF \E i \in 1..Len(arr) : arr[i].address = w
           THEN Save(c, new, "Already added")
           ELSE IF add_capacity(arr)
           THEN Save(c, new, "Max nodes reached")
           ELSE Save(c, new, "Added")
    /\ UNCHANGED <<schedVars, ft, an, sl>>

add_addr_recv(c, w0, lbl, r1, r2, r3) ==
    /\ DispatcherFree
    /\ LET w == Lower(w0)
           arr == get_addresses(c, r1)
       IN  IF ~WellFormed(w)
           THEN Reply(c, "Bad address. Try again or /cancel")
           ELSE IF \E i \in 1..Len(arr) : arr[i].address = w
           THEN Reply(c, "Already added")
           ELSE IF add_capacity(arr)
           THEN Reply(c, "Max nodes reached")
           ELSE Save(c, set_addresses(c, Append(arr, Item(w, lbl)), r2, r3), "Added")
    /\ UNCHANGED <<schedVars, ft, an, sl>>

\* the text of a Remove Address message: "Cancel", or the text of a keyboard
\* button, the address followed by " (label)" when the label is not empty
Button(w, l) == [k |-> "item", address |-> w, label |-> l]
CancelText == [k |-> "cancel", address |-> Wallet(0, FALSE), label |-> ""]

RECURSIVE Keep(_, _)
\* rm_addr_recv's loop: the items whose button text differs from ch
Keep(s, ch) ==
    IF s = <<>> THEN <<>>
    ELSE IF Button(Head(s).address, Head(s).label) = ch THEN Keep(Tail(s), ch)
    ELSE <<Head(s)>> \o Keep(Tail(s), ch)

rm_addr_recv(c, ch, r1, r2, r3) ==
    /\ DispatcherFree
    /\ LET old == get_addresses(c, r1)
           found == \E i \in 1..Len(old) : Button(old[i].address, old[i].label) = ch
       IN  IF ch = CancelText
           THEN Reply(c, "Cancelled.")
           ELSE IF ~found
           THEN Reply(c, "Not found")
           ELSE Save(c, set_addresses(c, Keep(old, ch), r2, r3), "Removed")
    /\ UNCHANGED <<schedVars, ft, an, sl>>

\* save_data, first half: open(DATA_FILE, "w") truncates the file; when it
\* raises, the error is logged and the handler goes on to its reply
save_open(openOk) ==
    /\ disp.pc = "open"
    /\ IF openOk
       THEN /\ file' = [st |-> "partial", d |-> EmptyD]
            /\ disp' = [disp EXCEPT !.pc = "dump"]
            /\ UNCHANGED reply
       ELSE /\ disp' = Idle
            /\ reply' = Said(disp.chat, disp.msg)
            /\ UNCHANGED file
    /\ UNCHANGED <<committed, schedVars, ft, an, sl>>

\* save_data, second half: json.dump writes the collection; when it raises,
\* the error is logged, the file stays truncated, and the handler replies
save_dump(dumpOk) ==
    /\ disp.pc = "dump"
    /\ IF dumpOk
       THEN /\ file' = [st |-> "ok", d |-> disp.d]
            /\ committed' = disp.d
       ELSE UNCHANGED <<file, committed>>
    /\ disp' = Idle
    /\ reply' = Said(disp.chat, disp.msg)
    /\ UNCHANGED <<schedVars, ft, an, sl>>

-----------------------------------------------------------------------------
(* The job queue *)

UPDATE == "auto_update"
ALERT == "alert"

Job(i, c, k, iv) == [id |-> i, chat |-> c, kind |-> k, interval |-> iv]
\* an executing callback: pc is "start" until it has read the chat's list
\* (get_addresses), "loaded" from then on, addrs being the list it read
Firing(j) == [id |-> j.id, chat |-> j.chat, kind |-> j.kind, pc |-> "start", addrs |-> <<>>]

\* job_queue.get_jobs_by_name(f"{kind}_{cid}")
get_jobs_by_name(k, c) == {j \in jobs : j.kind = k /\ j.chat = c}

\* the id the scheduler gives a new job of a name: one that no scheduled or
\* executing job of that name has
NewId(k, c) ==
    LET used == {j.id : j \in get_jobs_by_name(k, c)}
                    \cup {r.id : r \in {x \in running : x.kind = k /\ x.chat = c}}
    IN  CHOOSE i \in 1..(Cardinality(used) + 1) :
            i \notin used /\ \A n \in 1..(i - 1) : n \in used

already_running_mut_off(k, c) == FALSE

\* menu_auto / menu_alerts: the test that makes a second start a no-op
already_running(k, c) == get_jobs_by_name(k, c) # {}

\* run_repeating: IntervalTrigger raises ValueError for a NaN interval, and
\* the handler ends in the error handler without a reply
run_repeating(c, k, iv, msg) ==
    IF iv.nan
    THEN UNCHANGED <<jobs, reply, stopped>>
    ELSE /\ Cardinality(jobs) < MaxJobs
         /\ jobs' = jobs \cup {Job(NewId(k, c), c, k, iv)}
         /\ reply' = Said(c, msg)
         /\ stopped' = [stopped EXCEPT ![c] = FALSE]

menu_auto(c) ==
    /\ DispatcherFree
    /\ IF get_addresses(c, TRUE) = <<>>
       THEN reply' = Said(c, "No nodes added") /\ UNCHANGED <<jobs, stopped>>
       ELSE IF already_running(UPDATE, c)
       THEN reply' = Said(c, "Already running") /\ UNCHANGED <<jobs, stopped>>
       ELSE run_repeating(c, UPDATE, get_interval(c, TRUE), "Auto-update every")
    /\ UNCHANGED <<file, disp, committed, running, lastTick, ft, an, sl>>

menu_alerts(c) ==
    /\ DispatcherFree
    /\ IF get_addresses(c, TRUE) = <<>>
       THEN reply' = Said(c, "No nodes added") /\ UNCHANGED <<jobs, stopped>>
       ELSE IF already_running(ALERT, c)
       THEN reply' = Said(c, "Alerts on") /\ UNCHANGED <<jobs, stopped>>
       ELSE run_repeating(c, ALERT, Num(ALERT_INTERVAL), "Alerts enabled")
    /\ UNCHANGED <<file, disp, committed, running, lastTick, ft, an, sl>>

stop_names_mut_update_only == {UPDATE}

\* menu_stop: the job names it removes
stop_names == {UPDATE, ALERT}

menu_stop(c) ==
    /\ DispatcherFree
    /\ LET rm == {j \in jobs : j.chat = c /\ j.kind \in stop_names}
       IN  /\ jobs' = jobs \ rm
           /\ reply' = Said(c, IF rm # {} THEN "Stopped" ELSE "None running")
    /\ stopped' = [stopped EXCEPT ![c] = TRUE]
    /\ UNCHANGED <<file, disp, committed, running, lastTick, ft, an, sl>>

\* the interval of a scheduled job elapses: the scheduler submits the callback
\* to its thread pool, unless an instance of the same job is still executing
\* (max_instances is 1), in which case this run is skipped
Tick(j) ==
    /\ j \in jobs
    /\ IF \E r \in running : r.id = j.id
       THEN lastTick' = "skip" /\ UNCHANGED running
       ELSE /\ Cardinality(running) < MaxRunning
            /\ running' = running \cup {Firing(j)}
            /\ lastTick' = "run"
    /\ UNCHANGED <<storeVars, jobs, stopped, ft, an, sl>>

\* a job callback reads the chat's list from data.json, while the dispatcher
\* thread may be anywhere in a handler: get_addresses(cid)[:MAX_ADDRESS_PER_CHAT]
job_load(r) ==
    /\ r \in running
    /\ r.pc = "start"
    /\ running' = (running \ {r}) \cup
           {[r EXCEPT !.pc = "loaded",
                      !.addrs = Slice(get_addresses(r.chat, TRUE), 0, MAX_ADDRESS_PER_CHAT)]}
    /\ UNCHANGED <<storeVars, jobs, lastTick, stopped, ft, an, sl>>

\* the rows of the report auto_update builds from the list it read: one per
\* item, in the order of the list, whatever the fetches returned
report_rows(addrs) == [i \in 1..Len(addrs) |-> addrs[i].address]

\* a job callback (auto_update, alert_check) runs to its return, from where
\* it is
Finish(r) ==
    /\ r \in running
    /\ running' = running \ {r}
    /\ UNCHANGED <<storeVars, jobs, lastTick, stopped, ft, an, sl>>

-----------------------------------------------------------------------------
(* Upstream fetchers *)

\* what one GET of the explorer API comes to:
\*   "neterr"   requests.get raises (connection error, timeout)
\*   "badjson"  the body is not a JSON object: .json() or .get raises
\*   "errstr"   "result" is an error string such as "Max rate limit reached"
\*   "missing"  the object has no "result" key
\*   "ok"       "result" has the expected shape and carries payload p
Outcome(k, p) == [k |-> k, p |-> p]
Outcomes ==
    {Outcome(k, 0) : k \in {"neterr", "badjson", "errstr", "missing"}}
        \cup {Outcome("ok", p) : p \in 1..2}

FetchIdle ==
    [fn |-> "none", i |-> 0, pc |-> "idle", reqs |-> 0, slept |-> <<>>,
     hist |-> <<>>, raised |-> FALSE, val |-> 0]
FetchCall(fn) == [FetchIdle EXCEPT !.fn = fn, !.pc = "try"]

\* whether the body of the try statement raises on this response:
\* fetch_balance applies int() to the result, fetch_txs tests isinstance
try_raises(fn, o) ==
    \/ o.k \in {"neterr", "badjson"}
    \/ fn = "balance" /\ o.k = "errstr"

except_mut_requests_only(o) == o.k = "neterr"

\* the bare "except:" catches every exception
except_catches(o) == TRUE

\* range(3)
attempts == MAX_ATTEMPTS

\* one pass of the loop body up to the return, the except clause or the end of
\* the try statement
fetch_attempt(o) ==
    /\ ft.pc = "try"
    /\ ft.i < attempts
    /\ LET f == [ft EXCEPT !.reqs = @ + 1, !.hist = Append(@, o.k)]
       IN  ft' =
             IF try_raises(ft.fn, o)
             THEN IF except_catches(o)
                  THEN [f EXCEPT !.pc = "sleep"]
                  ELSE [f EXCEPT !.pc = "ret", !.raised = TRUE]
             ELSE IF o.k = "errstr"
             THEN [f EXCEPT !.i = @ + 1]
             ELSE [f EXCEPT !.pc = "ret", !.val = IF o.k = "ok" THEN o.p ELSE 0]
    /\ UNCHANGED <<storeVars, schedVars, an, sl>>

\* time.sleep(3*(i+1)) in the except clause, then the next pass
fetch_sleep ==
    /\ ft.pc = "sleep"
    /\ ft' = [ft EXCEPT !.slept = Append(@, BACKOFF_BASE * (ft.i + 1)),
                        !.i = @ + 1, !.pc = "try"]
    /\ UNCHANGED <<storeVars, schedVars, an, sl>>

\* the loop is exhausted: return 0.0, respectively []
fetch_exhausted ==
    /\ ft.pc = "try"
    /\ ft.i >= attempts
    /\ ft' = [ft EXCEPT !.pc = "ret", !.val = 0]
    /\ UNCHANGED <<storeVars, schedVars, an, sl>>

-----------------------------------------------------------------------------
(* Status of one subscription: the loop bodies of auto_update, menu_check and
   alert_check *)

\* transactions the status is computed on
MaxTxs == 26
\* length of the transaction lists for which now and the balance are varied too
SmallTxs == 1

ONLINE_THRESHOLD == 300
ALERT_THRESHOLD == 900
WINDOW == 25
GROUPS == 5
GROUP_SIZE == 5

\* method selectors, the first ten characters of a transaction's input
HEARTBEAT == "0x5c36b186"
COMMIT == "0xf21a494b"
TRANSFER == "0xa9059cbb"
allowed_methods ==
    [m \in {"0xf21a494b", "0x65c815a5", "0xca6726d9", "0x198e2b8a"} |->
        CASE m = "0xf21a494b" -> "Commit"
          [] m = "0x65c815a5" -> "Precommit"
          [] m = "0xca6726d9" -> "Prepare"
          [] OTHER -> "Create"]

\* a transaction of the explorer's txlist: isError is "0" for a success
Tx(m, e, t) == [input |-> m, isError |-> e, timeStamp |-> t]

last25(txs) == Slice(txs, 0, WINDOW)

\* last_allowed: the newest successful transaction of a productive method
last_allowed(txs) ==
    LET hit(i) ==
            /\ txs[i].input # HEARTBEAT
            /\ txs[i].isError = "0"
            /\ txs[i].input \in DOMAIN allowed_methods
        hits == {i \in 1..Len(txs) : hit(i)}
    IN  IF hits = {}
        THEN [none |-> TRUE, name |-> "", ts |-> 0]
        ELSE LET i == CHOOSE k \in hits : \A n \in hits : k <= n
             IN  [none |-> FALSE, name |-> allowed_methods[txs[i].input],
                  ts |-> txs[i].timeStamp]

online_mut_never(lt, now) == FALSE

\* now_wib() - datetime.fromtimestamp(lt, WIB) <= timedelta(minutes=5)
online(lt, now) == now - lt <= ONLINE_THRESHOLD

stalled_mut_whole_list(txs) ==
    \A i \in 1..Len(txs) : txs[i].input = HEARTBEAT

\* all(... startswith("0x5c36b186") for tx in last25)
stalled(txs) ==
    \A i \in 1..Len(last25(txs)) : last25(txs)[i].input = HEARTBEAT

\* the symbols of the health line: OK is the green square, FAIL the red one,
\* UNKNOWN the white one
health_symbol(g) ==
    IF \A k \in 1..Len(g) : g[k].isError = "0" THEN "OK"
    ELSE IF g # <<>> THEN "FAIL"
    ELSE "UNKNOWN"

groups(txs) ==
    [i \in 1..GROUPS |-> Slice(last25(txs), (i - 1) * GROUP_SIZE, i * GROUP_SIZE)]

Grid(g) == [k |-> "grid", g |-> g]
\* health = "No tx"
NoTx == [k |-> "No tx", g |-> <<>>]

health(txs) == Grid([i \in 1..GROUPS |-> health_symbol(groups(txs)[i])])

note(txs) ==
    LET ls == last_allowed(txs)
    IN  IF ls.none THEN [k |-> "none", name |-> "", ts |-> 0]
        ELSE [k |-> "last successful", name |-> ls.name, ts |-> ls.ts]

no_tx_row_mut_normal ==
    [st |-> "Offline", health |-> NoTx, stall |-> "Normal",
     note |-> [k |-> "N/A", name |-> "", ts |-> 0]]

\* the else branch of "if txs:"
no_tx_row ==
    [st |-> "Offline", health |-> NoTx, stall |-> "N/A",
     note |-> [k |-> "N/A", name |-> "", ts |-> 0]]

\* the body of the report loop after the fetches: the fields of the row
status(txs, now) ==
    IF txs # <<>>
    THEN [st |-> IF online(txs[1].timeStamp, now) THEN "Online" ELSE "Offline",
          health |-> health(txs),
          stall |-> IF stalled(txs) THEN "Stalled" ELSE "Normal",
          note |-> note(txs)]
    ELSE no_tx_row

\* the body of alert_check's loop after the fetch: the alerts it sends
alerts(txs, now) ==
    IF txs # <<>>
    THEN IF now - txs[1].timeStamp > ALERT_THRESHOLD
         THEN <<"no tx in last 15m">>
         ELSE LET ls == last_allowed(txs)
              IN  IF ~ls.none /\ now - ls.ts > ALERT_THRESHOLD
                  THEN <<"node stall">>
                  ELSE <<>>
    ELSE <<"no tx at all">>

AnIdle ==
    [pc |-> "idle", txs |-> <<>>, now |-> 0, bal |-> 0, balance |-> 0,
     row |-> no_tx_row, alerts |-> <<>>]
AnCall(txs, now, bal) == [AnIdle EXCEPT !.pc = "fetched", !.txs = txs, !.now = now, !.bal = bal]

\* auto_update / menu_check: one subscription's row
report_row ==
    /\ an.pc = "fetched"
    /\ an' = [an EXCEPT !.pc = "row", !.row = status(an.txs, an.now),
                        !.balance = an.bal]
    /\ UNCHANGED <<storeVars, schedVars, ft, sl>>

\* alert_check: one subscription's alerts
alert_row ==
    /\ an.pc = "fetched"
    /\ an' = [an EXCEPT !.pc = "alert", !.alerts = alerts(an.txs, an.now)]
    /\ UNCHANGED <<storeVars, schedVars, ft, sl>>

-----------------------------------------------------------------------------
(* send_long *)

\* lines a text may have
MaxLines == 6

maxl == 4096

\* a text is the sequence of its lines, txt.split("\n"), a line being known by
\* its place in the text and its length; the empty string is <<>>
Line(i, n) == [id |-> i, len |-> n]

RECURSIVE SumLen(_)
SumLen(ls) == IF ls = <<>> THEN 0 ELSE Head(ls).len + SumLen(Tail(ls))
\* len(s): the lines and the newlines between them
StrLen(ls) == IF ls = <<>> THEN 0 ELSE SumLen(ls) + Len(ls) - 1

\* the string that is the single line p: "" when p is a blank line
Str(p) == IF p.len = 0 THEN <<>> ELSE <<p>>

SlIdle == [pc |-> "idle", txt |-> <<>>, i |-> 0, buf |-> <<>>, out |-> <<>>]
SlCall(txt) == [SlIdle EXCEPT !.pc = "call", !.txt = txt]

\* bot.send_message(cid, m): Telegram refuses an empty text with BadRequest,
\* which send_long does not catch
send_message(m) ==
    IF m = <<>>
    THEN [sl EXCEPT !.pc = "raised"]
    ELSE [sl EXCEPT !.out = Append(@, m)]

\* len(txt) <= maxl: the text goes out as one message
send_long_whole ==
    /\ sl.pc = "call"
    /\ StrLen(sl.txt) <= maxl
    /\ sl' = [send_message(sl.txt) EXCEPT !.pc = IF @ = "raised" THEN @ ELSE "done"]
    /\ UNCHANGED <<storeVars, schedVars, ft, an>>

\* parts = txt.split("\n"); buf = ""
send_long_split ==
    /\ sl.pc = "call"
    /\ StrLen(sl.txt) > maxl
    /\ sl' = [sl EXCEPT !.pc = "loop", !.i = 1, !.buf = <<>>]
    /\ UNCHANGED <<storeVars, schedVars, ft, an>>

\* one pass of "for p in parts"
send_long_part ==
    /\ sl.pc = "loop"
    /\ sl.i <= Len(sl.txt)
    /\ LET p == sl.txt[sl.i]
       IN  sl' =
             IF StrLen(sl.buf) + p.len + 1 > maxl
             THEN LET sent == send_message(sl.buf)
                  IN  IF sent.pc = "raised" THEN sent
                      ELSE [sent EXCEPT !.buf = Str(p), !.i = @ + 1]
             ELSE [sl EXCEPT !.buf = IF sl.buf # <<>> THEN Append(sl.buf, p) ELSE Str(p),
                             !.i = @ + 1]
    /\ UNCHANGED <<storeVars, schedVars, ft, an>>

\* if buf: bot.send_message(cid, buf)
send_long_rest ==
    /\ sl.pc = "loop"
    /\ sl.i > Len(sl.txt)
    /\ sl' = IF sl.buf # <<>>
             THEN [send_message(sl.buf) EXCEPT !.pc = "done"]
             ELSE [sl EXCEPT !.pc = "done"]
    /\ UNCHANGED <<storeVars, schedVars, ft, an>>

-----------------------------------------------------------------------------
(* Specifications *)

InitStore ==
    /\ file = [st |-> "absent", d |-> EmptyD]
    /\ disp = Idle
    /\ reply = Said(0, "")
    /\ committed = EmptyD

InitSched ==
    /\ jobs = {}
    /\ running = {}
    /\ lastTick = "none"
    /\ stopped = [c \in Chats |-> FALSE]

Init == InitStore /\ InitSched /\ ft = FetchIdle /\ an = AnIdle /\ sl = SlIdle

\* the messages the users send
Wallets == [c \in Chats |-> {Wallet(1, FALSE)}]
Delays == [c \in Chats |-> IF c = 1 THEN {NumText(30), NumText(120)} ELSE {}]

StoreCommands(W, L, D, R) ==
    \/ \E c \in Chats : \E w \in W[c], l \in L, r1, r2, r3 \in R :
           add_addr_recv(c, w, l, r1, r2, r3)
    \/ \E c \in Chats : \E w \in W[c], l \in L, r1, r2, r3 \in R :
           rm_addr_recv(c, Button(Lower(w), l), r1, r2, r3)
    \/ \E c \in Chats, r1, r2, r3 \in R : rm_addr_recv(c, CancelText, r1, r2, r3)
    \/ \E c \in Chats : \E t \in D[c], r2, r3 \in R : set_delay_recv(c, t, r2, r3)
    \/ \E ok \in R : save_open(ok)
    \/ \E ok \in R : save_dump(ok)

SchedCommands(SC) ==
    \/ \E c \in SC : menu_auto(c)
    \/ \E c \in SC : menu_alerts(c)
    \/ \E c \in SC : menu_stop(c)
    \/ \E j \in jobs : Tick(j)
    \/ \E r \in running : Finish(r)

\* the bot: handlers and jobs, the file system never failing; both chats use
\* the store, chat 1 also the job queue
Next == StoreCommands(Wallets, {""}, Delays, {TRUE}) \/ SchedCommands({1})

Spec == Init /\ [][Next]_vars

\* the update job of chat 1 beside the handlers of both chats, the read of
\* data.json in the callback being a step of its own
NextFire ==
    \/ StoreCommands(Wallets, {""}, Delays, {TRUE})
    \/ menu_auto(1)
    \/ \E j \in jobs : Tick(j)
    \/ \E r \in running : job_load(r)
    \/ \E r \in running : Finish(r)

SpecFire == Init /\ [][NextFire]_vars

\* the store alone, its users sending enough addresses to reach the capacity
StoreWallets ==
    [c \in Chats |->
        IF c = 1
        THEN {Wallet(i, FALSE) : i \in 0..StoreAddrs} \cup {Wallet(1, TRUE)}
        ELSE {}]
StoreDelays ==
    [c \in Chats |->
        IF c = 2 THEN {NumText(30), NumText(120), NanText, JunkText} ELSE {}]

NextStore == StoreCommands(StoreWallets, {""}, StoreDelays, {TRUE})

SpecStore == Init /\ [][NextStore]_vars

\* the store on a file system whose reads and writes may fail
NextFault == StoreCommands(Wallets, {""}, Delays, BOOLEAN)

SpecFault == Init /\ [][NextFault]_vars

\* the store, its users sending the same addresses in either letter case and
\* with different labels
LabelWallets ==
    [c \in Chats |->
        IF c = 1
        THEN {Wallet(0, FALSE), Wallet(1, FALSE), Wallet(1, TRUE), Wallet(2, FALSE)}
        ELSE {Wallet(1, FALSE)}]
Labels == {"", "n1"}

NextLabel == StoreCommands(LabelWallets, Labels, Delays, {TRUE})

SpecLabel == Init /\ [][NextLabel]_vars

\* one call of a fetcher against an upstream that answers anything
InitFetch ==
    /\ InitStore /\ InitSched /\ an = AnIdle /\ sl = SlIdle
    /\ ft \in {FetchCall("balance"), FetchCall("txs")}

NextFetch ==
    \/ \E o \in Outcomes : fetch_attempt(o)
    \/ fetch_sleep
    \/ fetch_exhausted

SpecFetch == InitFetch /\ [][NextFetch]_vars

\* the status computation on the transaction lists an upstream may return
\* the time of the computation: varied for the lists of at most SmallTxs
\* transactions, Now0 for the longer ones (only ages enter the computation)
Now0 == 5000
Nows == {Now0, 6000}
Ages == {120, 300, 301, 900, 901}
Gaps == {0, 400}
TxKinds ==
    {<<HEARTBEAT, "0">>, <<HEARTBEAT, "1">>, <<COMMIT, "0">>, <<COMMIT, "1">>,
     <<TRANSFER, "0">>}
Balances == {0, 12340}

\* n transactions, newest first, the newest of age a and each gap seconds
\* older than the one before; all of kind base but the p-th, of kind odd
TxList(n, p, base, odd, now, a, gap) ==
    [i \in 1..n |->
        LET k == IF i = p THEN odd ELSE base
        IN  Tx(k[1], k[2], now - a - (i - 1) * gap)]

InitStatus ==
    /\ InitStore /\ InitSched /\ ft = FetchIdle /\ sl = SlIdle
    /\ \E n \in 0..MaxTxs : \E p \in 0..n :
          \E base \in TxKinds, odd \in TxKinds, a \in Ages, gap \in Gaps :
              \E now \in IF n <= SmallTxs THEN Nows ELSE {Now0} :
                  \E bal \in IF n <= SmallTxs THEN Balances ELSE {0} :
                      an = AnCall(TxList(n, p, base, odd, now, a, gap), now, bal)

NextStatus == report_row \/ alert_row

SpecStatus == InitStatus /\ [][NextStatus]_vars

\* send_long on the texts of reports: a header line, then up to MaxLines - 1
\* lines, blank ones among them but not at the end, none longer than a message
HeaderLen == 13
LineLens == {0, 10, 2000, 4081}

InitSplit ==
    /\ InitStore /\ InitSched /\ ft = FetchIdle /\ an = AnIdle
    /\ \E n \in 1..MaxLines : \E lens \in [2..n -> LineLens] :
          /\ n > 1 => lens[n] # 0
          /\ sl = SlCall([i \in 1..n |-> Line(i, IF i = 1 THEN HeaderLen ELSE lens[i])])

NextSplit == send_long_whole \/ send_long_split \/ send_long_part \/ send_long_rest

SpecSplit == InitSplit /\ [][NextSplit]_vars

-----------------------------------------------------------------------------
(* Properties *)

\* what a reader of data.json gets for a chat
Subs(c) == get_addresses(c, TRUE)
JobsOf(c, k) == get_jobs_by_name(k, c)
Kinds == {UPDATE, ALERT}
\* the dispatcher returns from a handler that called save_data
Completes == disp.pc # "idle" /\ disp'.pc = "idle"
\* the dispatcher enters save_data for chat c on behalf of a handler replying msg
Begins(c, msg) ==
    disp.pc = "idle" /\ disp'.pc = "open" /\ disp'.chat = c /\ disp'.msg = msg

\* C1: every chat's persisted subscription list has at most
\* MAX_ADDRESS_PER_CHAT (5) entries, whatever add, remove and set-interval
\* commands the chats have issued.
C1_Capacity ==
    \A c \in Chats : Len(Subs(c)) <= MAX_ADDRESS_PER_CHAT

C1_Witness ==
    /\ DispatcherFree
    /\ Len(Subs(1)) = MAX_ADDRESS_PER_CHAT
    /\ reply = Said(1, "Added")
    /\ 2 \in DOMAIN load_data(TRUE)

\* C2: there is never more than one scheduled job per (chat, kind), and a
\* start command for a (chat, kind) that has a scheduled job leaves that job
\* as it is: no step adds or replaces a job of a name that has one.
C2_OneTimer ==
    /\ [](\A c \in Chats, k \in Kinds : Cardinality(JobsOf(c, k)) <= 1)
    /\ [][\A c \in Chats, k \in Kinds :
            JobsOf(c, k) # {} => JobsOf(c, k)' \subseteq JobsOf(c, k)]_vars

C2_Witness ==
    /\ JobsOf(1, UPDATE) # {}
    /\ JobsOf(1, ALERT) # {}
    /\ reply = Said(1, "Already running")

\* C3 (as claimed): no two executing job callbacks belong to the same chat and
\* kind.
C3_NoOverlap ==
    \A r1 \in running, r2 \in running :
        (r1.chat = r2.chat /\ r1.kind = r2.kind) => r1 = r2

\* C4 (as claimed): once set_delay_recv has returned, the update job of the
\* chat runs at the chat's persisted interval.
C4_Rescheduled ==
    DispatcherFree =>
        \A j \in jobs : j.kind = UPDATE => j.interval = get_interval(j.chat, TRUE)

\* C5: after menu_stop for a chat and until its next successful start command,
\* the chat has no scheduled job of either kind and no job callback begins for
\* it; a callback that was executing when menu_stop ran stays executing.
C5_Stop ==
    /\ [](\A c \in Chats : stopped[c] => \A j \in jobs : j.chat # c)
    /\ [][\A c \in Chats :
            /\ (stopped[c] /\ stopped'[c]) =>
                   \A r \in running' \ running : r.chat # c
            /\ (~stopped[c] /\ stopped'[c]) =>
                   /\ \A j \in jobs' : j.chat # c
                   /\ running' = running]_vars

C5_Witness ==
    /\ stopped[1]
    /\ reply = Said(1, "Stopped")
    /\ \E r \in running : r.chat = 1 /\ r.kind = ALERT
    /\ \E r \in running : r.chat = 1 /\ r.kind = UPDATE

\* C6: a handler that saves for one chat leaves every other chat's record as
\* the last completed save left it and writes its own chat's new record, so
\* the changes of handlers of different chats are all in the file once the
\* handlers have returned.
C6_OtherTenantsKept ==
    [][Completes =>
          /\ file'.st = "ok"
          /\ DOMAIN file'.d = DOMAIN committed \cup {disp.chat}
          /\ \A t \in DOMAIN committed :
                 t # disp.chat => file'.d[t] = committed[t]
          /\ file'.d[disp.chat] = disp.d[disp.chat]]_vars

C6_Witness ==
    /\ DispatcherFree
    /\ file.st = "ok"
    /\ DOMAIN file.d = {1, 2}
    /\ Len(file.d[1].addresses) = 2
    /\ file.d[2].auto_update_interval = Num(120)
    /\ reply = Said(2, "Interval set")

\* C7: an add is accepted only while the chat has fewer than 5 persisted
\* subscriptions and then stores one more than before, at most 5: of two adds
\* sent to a chat holding 4, the one handled second finds 5 and is rejected.
C7_NoDoubleAdd ==
    [][\A c \in Chats :
          Begins(c, "Added") =>
              /\ Len(Subs(c)) < MAX_ADDRESS_PER_CHAT
              /\ Len(disp'.d[c].addresses) = Len(Subs(c)) + 1
              /\ Len(disp'.d[c].addresses) <= MAX_ADDRESS_PER_CHAT]_vars

C7_Witness ==
    /\ DispatcherFree
    /\ Len(Subs(1)) = MAX_ADDRESS_PER_CHAT
    /\ reply = Said(1, "Max nodes reached")

Range(s) == {s[i] : i \in 1..Len(s)}
\* the responses on which an attempt neither returns a payload nor a default
FailKinds == {"neterr", "badjson", "errstr"}

\* C8: a call of fetch_balance or fetch_txs makes at most 3 requests, never
\* raises, can always take its next step until it returns, and returns the
\* degraded value (0.0, respectively []) when all 3 requests failed.
C8_FetchBounded ==
    /\ ft.reqs <= MAX_ATTEMPTS
    /\ ~ft.raised
    /\ ft.pc \in {"try", "sleep"} => ENABLED NextFetch
    /\ (ft.pc = "ret" /\ Len(ft.hist) = MAX_ATTEMPTS /\ Range(ft.hist) \subseteq FailKinds)
           => ft.val = 0

C8_Witness ==
    /\ ft.pc = "ret"
    /\ ft.fn = "txs"
    /\ ft.hist = <<"neterr", "errstr", "badjson">>
    /\ ft.val = 0

\* C9 (as claimed): when a handler that called save_data returns, the file is
\* not left truncated and every other chat's record is as the last completed
\* save left it, whether or not a read or a write failed on the way.
C9_StoreIntact ==
    [][Completes =>
          /\ file'.st # "partial"
          /\ \A t \in DOMAIN committed :
                 t # disp.chat => (t \in DOMAIN file'.d /\ file'.d[t] = committed[t])]_vars

\* C10 (as claimed): every chat's poll interval, persisted or default, is at
\* least MIN_AUTO_UPDATE_INTERVAL (60).
C10_MinInterval ==
    \A c \in Chats :
        FloatGe(get_interval(c, TRUE), Num(MIN_AUTO_UPDATE_INTERVAL))

\* the replies with which add_addr_recv rejects a well-formed address
Rejections == {"Already added", "Max nodes reached"}

\* C11: an add that is rejected because the chat is at capacity or because the
\* address is already subscribed is answered without save_data being called:
\* the step that issues the rejection leaves data.json, and with it every
\* chat's list and interval, as it was.
C11_RejectedAddKeepsStore ==
    [][\A c \in Chats :
          (reply' # reply /\ reply'.chat = c /\ reply'.msg \in Rejections) =>
              /\ disp.pc = "idle" /\ disp'.pc = "idle"
              /\ file' = file
              /\ committed' = committed]_vars

C11_Witness ==
    /\ DispatcherFree
    /\ reply = Said(1, "Already added")
    /\ Len(Subs(1)) = 3
    /\ 2 \in DOMAIN load_data(TRUE)
    /\ file.d = committed

\* the addresses are the same up to letter case
SameAddress(a, b) == a.id = b.id
NoDuplicates(arr) ==
    \A i, j \in 1..Len(arr) : SameAddress(arr[i].address, arr[j].address) => i = j

\* C12: no address occurs twice in a chat's subscription list, neither in
\* data.json nor in a collection a handler is about to save, whatever adds
\* (in either letter case, with any label) and removes came before.
C12_NoDuplicates ==
    /\ \A c \in Chats : NoDuplicates(Subs(c))
    /\ \A c \in DOMAIN disp.d : NoDuplicates(disp.d[c].addresses)

C12_Witness ==
    /\ DispatcherFree
    /\ reply = Said(1, "Already added")
    /\ Len(Subs(1)) = 2
    /\ Subs(1)[1].label = "n1"
    /\ Subs(1)[2].address = Wallet(1, FALSE)

\* the waits base * 1, base * 2, ... after the first n attempts
Backoffs(n) == [a \in 1..n |-> BACKOFF_BASE * a]

\* C15 (as claimed): when a call is about to make another attempt, every
\* attempt made so far (all of them failed: network error, exception, or a
\* result of the wrong shape) was followed by its backoff wait, 3s after the
\* first and 6s after the second; and a call whose third attempt succeeds
\* returns that attempt's payload after exactly these two waits.
C15_Backoff ==
    /\ (ft.pc = "try" /\ ft.i < attempts) => ft.slept = Backoffs(Len(ft.hist))
    /\ (ft.pc = "ret" /\ Len(ft.hist) = MAX_ATTEMPTS /\ ft.hist[MAX_ATTEMPTS] = "ok")
           => (ft.val # 0 /\ ft.slept = Backoffs(MAX_ATTEMPTS - 1))

\* the row of a subscription has been computed from its transaction list
RowDone == an.pc = "row"
AllUnknown == Grid([i \in 1..GROUPS |-> "UNKNOWN"])

GroupAt(txs, i) ==
    {k \in 1..Len(txs) : k <= WINDOW /\ (i - 1) * GROUP_SIZE < k /\ k <= i * GROUP_SIZE}

\* C16 (as claimed): for a non-empty transaction list the health grid has 5
\* symbols, the i-th UNKNOWN when the i-th group is empty, OK when it is not
\* empty and all its transactions succeeded, FAIL when one of them errored.
C16_HealthGrid ==
    (RowDone /\ an.txs # <<>>) =>
        /\ an.row.health.k = "grid"
        /\ Len(an.row.health.g) = GROUPS
        /\ \A i \in 1..GROUPS :
              an.row.health.g[i] =
                  IF GroupAt(an.txs, i) = {} THEN "UNKNOWN"
                  ELSE IF \A k \in GroupAt(an.txs, i) : an.txs[k].isError = "0" THEN "OK"
                  ELSE "FAIL"

\* C18 (as claimed): the row says Online exactly when there is a transaction
\* and now minus the newest one's timestamp is strictly below 300 seconds,
\* and Offline otherwise.
C18_OnlineIff ==
    RowDone =>
        /\ an.row.st \in {"Online", "Offline"}
        /\ an.row.st = "Online" <=>
              (an.txs # <<>> /\ an.now - an.txs[1].timeStamp < ONLINE_THRESHOLD)

\* every one of the 25 newest transactions is a heartbeat
AllHeartbeat(txs) ==
    \A k \in 1..Len(txs) : k <= WINDOW => txs[k].input = HEARTBEAT

\* C20: for a non-empty transaction list the stall state is Stalled exactly
\* when each of the 25 newest transactions (all of them when there are fewer)
\* is a heartbeat, and Normal otherwise, whatever the health grid shows: 25
\* successful heartbeats give Stalled with five OK.
C20_Stall ==
    (RowDone /\ an.txs # <<>>) =>
        /\ an.row.stall = (IF AllHeartbeat(an.txs) THEN "Stalled" ELSE "Normal")
        /\ (/\ Len(an.txs) >= WINDOW
            /\ \A k \in 1..WINDOW :
                   an.txs[k].input = HEARTBEAT /\ an.txs[k].isError = "0")
               => (/\ an.row.stall = "Stalled"
                   /\ an.row.health = Grid([i \in 1..GROUPS |-> "OK"]))

C20_Witness ==
    /\ RowDone
    /\ Len(an.txs) = WINDOW + 1
    /\ AllHeartbeat(an.txs)
    /\ \A k \in 1..WINDOW : an.txs[k].isError = "0"
    /\ an.txs[WINDOW + 1].input = COMMIT
    /\ an.row.stall = "Stalled"
    /\ an.row.health = Grid([i \in 1..GROUPS |-> "OK"])

\* alert_check has gone through a subscription
AlertDone == an.pc = "alert"
\* the newest successful productive transaction, where there is one
Productive(txs) ==
    {k \in 1..Len(txs) :
        /\ txs[k].input \in DOMAIN allowed_methods
        /\ txs[k].isError = "0"
        /\ \A n \in 1..(k - 1) :
               ~(txs[n].input \in DOMAIN allowed_methods /\ txs[n].isError = "0")}
AlertDue(txs, now) ==
    \/ txs = <<>>
    \/ txs # <<>> /\ now - txs[1].timeStamp > ALERT_THRESHOLD
    \/ /\ txs # <<>>
       /\ AllHeartbeat(txs)
       /\ \E k \in Productive(txs) : now - txs[k].timeStamp > ALERT_THRESHOLD

\* C17 (as claimed): alert_check sends exactly one alert for a subscription
\* that has no transactions, or whose newest transaction is older than 15
\* minutes, or that is Stalled with its last successful productive transaction
\* older than 15 minutes, and no alert for any other subscription.
C17_Alerts ==
    AlertDone =>
        Len(an.alerts) = (IF AlertDue(an.txs, an.now) THEN 1 ELSE 0)

RECURSIVE Flatten(_)
\* the lines of a sequence of messages, in the order of emission
Flatten(ms) == IF ms = <<>> THEN <<>> ELSE Head(ms) \o Flatten(Tail(ms))

\* C19 (as claimed): when the text is longer than 4096 characters, send_long
\* returns having sent messages whose lines, in the order of emission, are the
\* lines of the text in their order, none of them split (each message is a
\* run of whole lines).
C19_SplitOnLines ==
    /\ sl.pc # "raised"
    /\ (sl.pc = "done" /\ StrLen(sl.txt) > maxl) => Flatten(sl.out) = sl.txt

\* the lists a chat has in the store: the one of the last completed save and,
\* while a handler is inside save_data, the one being written
Persisted(c) ==
    {get_chat_in(committed, c).addresses}
        \cup (IF disp.pc # "idle" THEN {get_chat_in(disp.d, c).addresses} ELSE {})

\* C14 (as claimed): the list an update firing reads when it runs is the
\* list persisted for its chat at that time, so that its report has one row
\* for each subscription the chat has then, in insertion order.
C14_ReadsCurrentList ==
    [][\A r \in running : \A q \in running' :
          (/\ r.kind = UPDATE /\ r.pc = "start"
           /\ q.id = r.id /\ q.kind = r.kind /\ q.chat = r.chat /\ q.pc = "loaded")
              => \E l \in Persisted(r.chat) : report_rows(q.addrs) = report_rows(l)]_vars

====
